---- MODULE Spec2Model ----
(***************************************************************************)
(* The BGE-M3 embedding server (docker/bge-m3/server.py): a Flask process  *)
(* that loads one model at start and serves /health, /embed, /embed/batch, *)
(* /embed/full and /embed/batch/full.  Each worker thread runs one request *)
(* handler at a time; a handler that passes validation blocks in           *)
(* model.encode, so the handlers of two workers interleave around it.      *)
(***************************************************************************)
EXTENDS Integers, Sequences, FiniteSets, TLC

VARIABLES
    environ,      \* os.environ as read at import time
    MODEL_NAME,   \* module global, line 22
    MAX_LENGTH,   \* module global, line 23
    model,        \* module global, line 26
    T,            \* the texts the clients of this run submit
    workers       \* per worker thread: the request it handles and its locals

vars == <<environ, MODEL_NAME, MAX_LENGTH, model, T, workers>>

globals == <<environ, MODEL_NAME, MAX_LENGTH, model, T>>

\* Longest `texts` sequence a client submits.
MaxLen == 2

\* The worker threads of the hosting web server.
Threads == {"w1", "w2"}

-----------------------------------------------------------------------------
(* JSON values as request.get_json() yields them.  Every value is a record *)
(* of one shape; `tag` is the Python type.                                 *)

Absent == [tag |-> "absent", str |-> "", items |-> <<>>]

Str(s) == [tag |-> "str", str |-> s, items |-> <<>>]

Num(s) == [tag |-> "num", str |-> s, items |-> <<>>]

List(xs) == [tag |-> "list", str |-> "", items |-> xs]

\* A JSON object body; a key that is not in the object is Absent.
Object(text, texts) == [kind |-> "object", text |-> text, texts |-> texts]

\* A JSON body that is not an object (null): no .get method.
NonObject == [kind |-> "null", text |-> Absent, texts |-> Absent]

\* Mutant of Truthy: `if text is None` in place of `if not text`.
TruthyNotNone(v) == v.tag # "null"

\* Python truthiness, as `if not text` / `if not texts` evaluates it.
Truthy(v) ==
    CASE v.tag = "str" -> v.str # ""
      [] v.tag = "num" -> v.str # "0"
      [] v.tag = "list" -> v.items # <<>>
      [] OTHER -> FALSE

\* dict.get(key, default) on the value stored under the key.
DictGet(v, default) == IF v = Absent THEN default ELSE v

\* Python int() of a decimal string, the string given as its digits.
RECURSIVE int(_)
int(digits) ==
    IF digits = <<>> THEN 0
    ELSE 10 * int(SubSeq(digits, 1, Len(digits) - 1)) + digits[Len(digits)]

\* Python float() of a numpy scalar: the same number as a Python float.
float(x) == x.np

\* ndarray.tolist(): the vector's numbers as a list of Python floats.
tolist(vec) == [i \in 1..Len(vec) |-> vec[i].np]

-----------------------------------------------------------------------------
(* Process start: lines 22-26.                                             *)

DefaultModelName == "BAAI/bge-m3"

DefaultMaxLength == <<8, 1, 9, 2>>

\* os.environ.get(key, default): a variable is a sequence of 0 or 1 values.
EnvGet(value, default) == IF value = <<>> THEN default ELSE value[1]

Environs ==
    { [MODEL_NAME |-> <<>>, MAX_LENGTH |-> <<>>],
      [MODEL_NAME |-> <<"local/bge-m3-ft">>, MAX_LENGTH |-> << <<1>> >>] }

\* What the loaded weights do: the texts inference fails on.
ModelBehaviours == { [raises |-> {}], [raises |-> {Str("b")}] }

BGEM3FlagModel(name, behaviour) == [name |-> name, raises |-> behaviour.raises]

-----------------------------------------------------------------------------
(* model.encode: the embedding capability, a fixed per-text function.      *)

\* Token ids of a text, as the decimal strings FlagEmbedding keys on.
Tokenize(e) ==
    CASE e = Str("a") -> << <<1, 2>>, <<5>> >>
      [] e = Str("b") -> << <<7>> >>
      [] e = Num("5") -> << <<3>> >>
      [] OTHER -> <<>>

Truncate(toks, max_length) ==
    IF Len(toks) > max_length THEN SubSeq(toks, 1, max_length) ELSE toks

DenseVec(e, max_length) ==
    LET toks == Truncate(Tokenize(e), max_length)
    IN  << [np |-> Len(toks)],
           [np |-> IF toks = <<>> THEN 0 ELSE int(toks[Len(toks)])] >>

\* The lexical weights of one text: a dict in insertion order, as the
\* sequence of its (key, value) items.
LexicalWeights(e, max_length) ==
    LET toks == Truncate(Tokenize(e), max_length)
    IN  [i \in 1..Len(toks) |->
            [k |-> toks[i], v |-> [np |-> (int(toks[i]) % 3) + 1]]]

\* encode raises on an argument it cannot iterate, on an element its
\* tokenizer does not take (anything but a string), and on the texts
\* inference fails on.
EncodeRaises(m, call) ==
    \/ call.sentences.tag # "list"
    \/ \E i \in 1..Len(call.sentences.items) :
          \/ call.sentences.items[i] \in m.raises
          \/ call.sentences.items[i].tag # "str"

Encode(m, call) ==
    LET xs == call.sentences.items
        dense == [i \in 1..Len(xs) |-> DenseVec(xs[i], call.max_length)]
        lexical == [i \in 1..Len(xs) |-> LexicalWeights(xs[i], call.max_length)]
        colbert == [i \in 1..Len(xs) |-> Tokenize(xs[i])]
    IN  IF call.return_sparse /\ call.return_colbert_vecs
        THEN [dense_vecs |-> dense, lexical_weights |-> lexical,
              colbert_vecs |-> colbert]
        ELSE IF call.return_sparse
        THEN [dense_vecs |-> dense, lexical_weights |-> lexical]
        ELSE IF call.return_colbert_vecs
        THEN [dense_vecs |-> dense, colbert_vecs |-> colbert]
        ELSE [dense_vecs |-> dense]

-----------------------------------------------------------------------------
(* sparse_to_dict, lines 30-36.                                            *)

\* Mutant of sparse_to_dict: the indices sorted, the values left as they are.
sparse_to_dict_sorted(lexical_weights) ==
    [indices |-> SortSeq([i \in 1..Len(lexical_weights) |-> int(lexical_weights[i].k)],
                         LAMBDA a, b : a < b),
     values |-> [i \in 1..Len(lexical_weights) |-> float(lexical_weights[i].v)]]


sparse_to_dict(lexical_weights) ==
    IF lexical_weights = <<>>
    THEN [indices |-> <<>>, values |-> <<>>]
    ELSE [indices |-> [i \in 1..Len(lexical_weights) |-> int(lexical_weights[i].k)],
          values |-> [i \in 1..Len(lexical_weights) |-> float(lexical_weights[i].v)]]

-----------------------------------------------------------------------------
(* Responses.                                                              *)

NoResponse == [status |-> 0, body |-> [none |-> TRUE]]

NoResult == [none |-> TRUE]

\* jsonify({"error": ...}), 400
BadRequest(msg) == [status |-> 400, body |-> [error |-> msg]]

\* data.get on a body that is no dict raises AttributeError: Flask's 500.
AttributeError == [status |-> 500, body |-> [fault |-> "AttributeError"]]

\* Mutant of InferenceFailure: the error caught and a degraded 200 returned.
InferenceFailureSwallowed == [status |-> 200, body |-> [dense |-> <<>>]]

\* model.encode raised and no handler catches it: Flask's 500.
InferenceFailure == [status |-> 500, body |-> [fault |-> "InferenceFailure"]]

\* Mutant of health_response: the default identifier hard-coded.
health_response_default ==
    [status |-> 200, body |-> [status |-> "ok", model |-> DefaultModelName]]


health_response == [status |-> 200, body |-> [status |-> "ok", model |-> MODEL_NAME]]

embed_call(text) ==
    [sentences |-> List(<<text>>), max_length |-> MAX_LENGTH,
     return_dense |-> TRUE, return_sparse |-> FALSE, return_colbert_vecs |-> FALSE]

\* Mutant of embed_response: the result kept in a buffer the requests share,
\* read back after another request has overwritten it.
embed_response_shared(result) ==
    LET others == {u \in Threads : workers[u].pc = "done"
                                     /\ "dense_vecs" \in DOMAIN workers[u].result}
        shared == IF others = {} THEN result
                  ELSE workers[CHOOSE u \in others : TRUE].result
    IN  [status |-> 200, body |-> [embedding |-> tolist(shared.dense_vecs[1])]]


embed_response(result) ==
    [status |-> 200, body |-> [embedding |-> tolist(result.dense_vecs[1])]]

\* Mutant of embed_batch_call: the flags of the full variant pasted in.
embed_batch_call_sparse(texts) ==
    [sentences |-> texts, max_length |-> MAX_LENGTH,
     return_dense |-> TRUE, return_sparse |-> TRUE, return_colbert_vecs |-> FALSE]

\* Mutant of embed_batch_call: only the head of the batch is passed.
embed_batch_call_head(texts) ==
    [sentences |-> IF texts.tag = "list" /\ Len(texts.items) > 1
                   THEN List(<<texts.items[1]>>) ELSE texts,
     max_length |-> MAX_LENGTH,
     return_dense |-> TRUE, return_sparse |-> FALSE, return_colbert_vecs |-> FALSE]


embed_batch_call(texts) ==
    [sentences |-> texts, max_length |-> MAX_LENGTH,
     return_dense |-> TRUE, return_sparse |-> FALSE, return_colbert_vecs |-> FALSE]

\* Mutant of embed_batch_response: the vectors returned in reverse order.
embed_batch_response_reversed(result) ==
    [status |-> 200,
     body |-> [embeddings |->
                 [i \in 1..Len(result.dense_vecs) |->
                     tolist(result.dense_vecs[Len(result.dense_vecs) + 1 - i])]]]


embed_batch_response(result) ==
    [status |-> 200,
     body |-> [embeddings |->
                 [i \in 1..Len(result.dense_vecs) |-> tolist(result.dense_vecs[i])]]]

embed_full_call(text) ==
    [sentences |-> List(<<text>>), max_length |-> MAX_LENGTH,
     return_dense |-> TRUE, return_sparse |-> TRUE, return_colbert_vecs |-> FALSE]

embed_full_response(result) ==
    [status |-> 200,
     body |-> [dense |-> tolist(result.dense_vecs[1]),
               sparse |-> sparse_to_dict(result.lexical_weights[1])]]

embed_batch_full_call(texts) ==
    [sentences |-> texts, max_length |-> MAX_LENGTH,
     return_dense |-> TRUE, return_sparse |-> TRUE, return_colbert_vecs |-> FALSE]

\* Mutant of embed_batch_full_response: the sparse list out of step with
\* the dense list.
embed_batch_full_response_misaligned(result) ==
    [status |-> 200,
     body |-> [dense |->
                 [i \in 1..Len(result.dense_vecs) |-> tolist(result.dense_vecs[i])],
               sparse |->
                 [i \in 1..Len(result.lexical_weights) |->
                     sparse_to_dict(result.lexical_weights[
                         Len(result.lexical_weights) + 1 - i])]]]


embed_batch_full_response(result) ==
    [status |-> 200,
     body |-> [dense |->
                 [i \in 1..Len(result.dense_vecs) |-> tolist(result.dense_vecs[i])],
               sparse |->
                 [i \in 1..Len(result.lexical_weights) |->
                     sparse_to_dict(result.lexical_weights[i])]]]

-----------------------------------------------------------------------------
(* The requests of a run.                                                  *)

Atoms == {Str("a"), Str("b"), Str("")}

Batches == UNION {[1..n -> Atoms] : n \in 1..MaxLen}

TextValues == {Str(""), Num("5")} \cup {T[i] : i \in 1..Len(T)}

TextsValues == {List(<<>>), List(T), Num("5")}

Bodies ==
    {Object(Absent, Absent), NonObject}
        \cup {Object(v, Absent) : v \in TextValues}
        \cup {Object(Absent, v) : v \in TextsValues}

-----------------------------------------------------------------------------
(* Worker threads.                                                         *)

Idle ==
    [pc |-> "idle", endpoint |-> "", body |-> NonObject, local |-> Absent,
     calls |-> <<>>, raised |-> FALSE, result |-> NoResult, response |-> NoResponse]

Free(th) == workers[th].pc \in {"idle", "done"}

Calling(th, ep) == workers[th].pc = "encode" /\ workers[th].endpoint = ep

\* The handler returned (or raised) without calling the model.
Served(ep, data, resp) ==
    [pc |-> "done", endpoint |-> ep, body |-> data, local |-> Absent,
     calls |-> <<>>, raised |-> FALSE, result |-> NoResult, response |-> resp]

\* request.get_json(), data.get(field, default), `if not field: return 400`.
Parse(th, ep, data, field, msg) ==
    workers' = [workers EXCEPT ![th] =
        IF data.kind # "object" THEN Served(ep, data, AttributeError)
        ELSE IF ~Truthy(field) THEN Served(ep, data, BadRequest(msg))
        ELSE [pc |-> "encode", endpoint |-> ep, body |-> data, local |-> field,
              calls |-> <<>>, raised |-> FALSE, result |-> NoResult,
              response |-> NoResponse]]

\* result = model.encode(...); the response is shaped from result.
Invoke(th, call, resp) ==
    workers' = [workers EXCEPT ![th] =
        [@ EXCEPT !.pc = "done",
                  !.calls = Append(@, call),
                  !.raised = EncodeRaises(model, call),
                  !.result = IF EncodeRaises(model, call) THEN NoResult
                             ELSE Encode(model, call),
                  !.response = IF EncodeRaises(model, call) THEN InferenceFailure
                               ELSE resp]]

health(th) ==
    /\ Free(th)
    /\ workers' = [workers EXCEPT ![th] = Served("/health", NonObject, health_response)]
    /\ UNCHANGED globals

embed(th) ==
    \/ /\ Free(th)
       /\ \E data \in Bodies :
             Parse(th, "/embed", data, DictGet(data.text, Str("")), "text is required")
       /\ UNCHANGED globals
    \/ /\ Calling(th, "/embed")
       /\ Invoke(th, embed_call(workers[th].local),
                 embed_response(Encode(model, embed_call(workers[th].local))))
       /\ UNCHANGED globals

embed_batch(th) ==
    \/ /\ Free(th)
       /\ \E data \in Bodies :
             Parse(th, "/embed/batch", data, DictGet(data.texts, List(<<>>)),
                   "texts is required")
       /\ UNCHANGED globals
    \/ /\ Calling(th, "/embed/batch")
       /\ Invoke(th, embed_batch_call(workers[th].local),
                 embed_batch_response(Encode(model, embed_batch_call(workers[th].local))))
       /\ UNCHANGED globals

embed_full(th) ==
    \/ /\ Free(th)
       /\ \E data \in Bodies :
             Parse(th, "/embed/full", data, DictGet(data.text, Str("")),
                   "text is required")
       /\ UNCHANGED globals
    \/ /\ Calling(th, "/embed/full")
       /\ Invoke(th, embed_full_call(workers[th].local),
                 embed_full_response(Encode(model, embed_full_call(workers[th].local))))
       /\ UNCHANGED globals

embed_batch_full(th) ==
    \/ /\ Free(th)
       /\ \E data \in Bodies :
             Parse(th, "/embed/batch/full", data, DictGet(data.texts, List(<<>>)),
                   "texts is required")
       /\ UNCHANGED globals
    \/ /\ Calling(th, "/embed/batch/full")
       /\ Invoke(th, embed_batch_full_call(workers[th].local),
                 embed_batch_full_response(
                     Encode(model, embed_batch_full_call(workers[th].local))))
       /\ UNCHANGED globals

-----------------------------------------------------------------------------

Init ==
    /\ environ \in Environs
    /\ MODEL_NAME = EnvGet(environ.MODEL_NAME, DefaultModelName)
    /\ MAX_LENGTH = int(EnvGet(environ.MAX_LENGTH, DefaultMaxLength))
    /\ model \in {BGEM3FlagModel(MODEL_NAME, b) : b \in ModelBehaviours}
    /\ T \in Batches
    /\ workers = [th \in Threads |-> Idle]

Next ==
    \E th \in Threads :
        \/ health(th)
        \/ embed(th)
        \/ embed_batch(th)
        \/ embed_full(th)
        \/ embed_batch_full(th)

Spec == Init /\ [][Next]_vars

-----------------------------------------------------------------------------
(* Vocabulary of the properties.                                           *)

SingleEndpoints == {"/embed", "/embed/full"}

BatchEndpoints == {"/embed/batch", "/embed/batch/full"}

FullEndpoints == {"/embed/full", "/embed/batch/full"}

EmbedEndpoints == SingleEndpoints \cup BatchEndpoints

\* The value a body carries under the field the endpoint is keyed on.
FieldOf(ep, data) == IF ep \in SingleEndpoints THEN data.text ELSE data.texts

RequiredMessage(ep) ==
    IF ep \in SingleEndpoints THEN "text is required" ELSE "texts is required"

MissingOrEmpty(v) == v = Absent \/ v = Str("") \/ v = List(<<>>)

\* A non-empty sequence of strings.
StringSequence(v) ==
    /\ v.tag = "list"
    /\ v.items # <<>>
    /\ \A i \in 1..Len(v.items) : v.items[i].tag = "str"

ConfiguredModelName == EnvGet(environ.MODEL_NAME, DefaultModelName)

ConfiguredMaxLength == int(EnvGet(environ.MAX_LENGTH, DefaultMaxLength))

Done(th) == workers[th].pc = "done"

Ok(th) == Done(th) /\ workers[th].response.status = 200

-----------------------------------------------------------------------------
-----------------------------------------------------------------------------
\* C2 as stated: for every non-empty sequence of strings T a 200 answer of
\* /embed/batch has len(T) embeddings, and for EVERY index i a /embed
\* request for T[i] alone is answered 200 with embedding = embeddings[i].
C2_BatchMatchesSingleEveryIndex ==
    \A b, s \in Threads :
        ( /\ Ok(b) /\ workers[b].endpoint = "/embed/batch"
          /\ StringSequence(workers[b].body.texts) )
        => LET xs == workers[b].body.texts.items
               embeddings == workers[b].response.body.embeddings
           IN  /\ Len(embeddings) = Len(xs)
               /\ \A i \in 1..Len(xs) :
                     ( /\ Done(s) /\ workers[s].endpoint = "/embed"
                       /\ workers[s].body = Object(xs[i], Absent) )
                     => /\ workers[s].response.status = 200
                        /\ workers[s].response.body.embedding = embeddings[i]

\* C2 amended: the same for every index i whose T[i] is a non-empty string;
\* and a batch of strings none of which inference fails on is answered 200.
C2_BatchMatchesSingle ==
    \A b, s \in Threads :
        /\ ( /\ Done(b) /\ workers[b].endpoint = "/embed/batch"
             /\ StringSequence(workers[b].body.texts)
             /\ \A i \in 1..Len(workers[b].body.texts.items) :
                   workers[b].body.texts.items[i] \notin model.raises )
           => workers[b].response.status = 200
        /\ ( /\ Ok(b) /\ workers[b].endpoint = "/embed/batch"
             /\ StringSequence(workers[b].body.texts) )
           => LET xs == workers[b].body.texts.items
                  embeddings == workers[b].response.body.embeddings
              IN  /\ Len(embeddings) = Len(xs)
                  /\ \A i \in 1..Len(xs) :
                        ( /\ xs[i] # Str("")
                          /\ Done(s) /\ workers[s].endpoint = "/embed"
                          /\ workers[s].body = Object(xs[i], Absent) )
                        => /\ workers[s].response.status = 200
                           /\ workers[s].response.body.embedding = embeddings[i]

\* A batch of two different non-empty strings was answered, and so was a
\* single embed of its second string.
C2_Witness ==
    \E b, s \in Threads :
        /\ Ok(b) /\ workers[b].endpoint = "/embed/batch"
        /\ StringSequence(workers[b].body.texts)
        /\ Len(workers[b].body.texts.items) >= 2
        /\ workers[b].body.texts.items[1] # workers[b].body.texts.items[2]
        /\ workers[b].body.texts.items[1] # Str("")
        /\ workers[b].body.texts.items[2] # Str("")
        /\ Ok(s) /\ workers[s].endpoint = "/embed"
        /\ workers[s].body = Object(workers[b].body.texts.items[2], Absent)

-----------------------------------------------------------------------------
\* The {indices, values} wire form d of the lexical-weight mapping m.
WireFormOf(m, d) ==
    /\ Len(d.indices) = Len(m)
    /\ Len(d.values) = Len(m)
    /\ \A i \in 1..Len(m) :
          /\ d.indices[i] \in Nat
          \* the i-th entry of the output is the i-th item of m
          /\ d.indices[i] = int(m[i].k)
          \* values[i] is the weight m gives to the token id indices[i]
          /\ \A j \in 1..Len(m) :
                int(m[j].k) = d.indices[i] => d.values[i] = m[j].v.np
    /\ (m = <<>> => d.indices = <<>> /\ d.values = <<>>)

\* C3: every sparse object of a response is the wire form of the mapping
\* encode returned for that input: equal lengths, the number of entries of
\* the mapping, index-for-index correspondence, the mapping's iteration
\* order, non-negative integer indices, and two empty sequences for an
\* empty mapping.
C3_SparseWireForm ==
    \A th \in Threads :
        /\ (Ok(th) /\ workers[th].endpoint = "/embed/full")
           => WireFormOf(workers[th].result.lexical_weights[1],
                         workers[th].response.body.sparse)
        /\ (Ok(th) /\ workers[th].endpoint = "/embed/batch/full")
           => /\ Len(workers[th].response.body.sparse)
                    = Len(workers[th].result.lexical_weights)
              /\ \A i \in 1..Len(workers[th].result.lexical_weights) :
                    WireFormOf(workers[th].result.lexical_weights[i],
                               workers[th].response.body.sparse[i])

\* A response carries the wire form of an empty mapping and of a mapping of
\* two entries whose token ids are not in ascending order.
C3_Witness ==
    \E th \in Threads :
        /\ Ok(th) /\ workers[th].endpoint = "/embed/batch/full"
        /\ \E i, j \in 1..Len(workers[th].result.lexical_weights) :
              /\ workers[th].result.lexical_weights[i] = <<>>
              /\ workers[th].response.body.sparse[i].indices = <<>>
              /\ Len(workers[th].result.lexical_weights[j]) = 2
              /\ workers[th].response.body.sparse[j].indices[1]
                    > workers[th].response.body.sparse[j].indices[2]

-----------------------------------------------------------------------------
\* C4: a 200 answer of /embed/batch/full to a non-empty sequence of strings
\* T has len(T) dense vectors and len(T) sparse objects, and dense[i] and
\* sparse[i] are both those of T[i].
C4_BatchFullPairwise ==
    \A th \in Threads :
        ( /\ Ok(th) /\ workers[th].endpoint = "/embed/batch/full"
          /\ StringSequence(workers[th].body.texts) )
        => LET xs == workers[th].body.texts.items
               out == workers[th].response.body
           IN  /\ Len(out.dense) = Len(xs)
               /\ Len(out.sparse) = Len(xs)
               /\ \A i \in 1..Len(xs) :
                     /\ out.dense[i] = tolist(DenseVec(xs[i], ConfiguredMaxLength))
                     /\ WireFormOf(LexicalWeights(xs[i], ConfiguredMaxLength),
                                   out.sparse[i])

\* A batch of two texts with different dense and different sparse results
\* was answered.
C4_Witness ==
    \E th \in Threads :
        /\ Ok(th) /\ workers[th].endpoint = "/embed/batch/full"
        /\ StringSequence(workers[th].body.texts)
        /\ Len(workers[th].body.texts.items) = 2
        /\ workers[th].response.body.dense[1] # workers[th].response.body.dense[2]
        /\ workers[th].response.body.sparse[1] # workers[th].response.body.sparse[2]

-----------------------------------------------------------------------------
PayloadKeys == {"embedding", "embeddings", "dense", "sparse"}

C5_State ==
    \A th \in Threads :
        LET w == workers[th]
        IN  Done(th) =>
              \* an error raised by encode ends the request as a 500 that
              \* carries no representation at all
              /\ w.raised => /\ w.response.status = 500
                             /\ DOMAIN w.response.body \cap PayloadKeys = {}
              \* a call that returned ends the request as a 200, whatever
              \* became of the other requests
              /\ (w.calls # <<>> /\ ~w.raised) => w.response.status = 200
              \* a 200 of a full endpoint holds dense and sparse of every input
              /\ (w.response.status = 200 /\ w.endpoint = "/embed/full")
                 => /\ {"dense", "sparse"} \subseteq DOMAIN w.response.body
                    /\ w.response.body.dense
                          = tolist(DenseVec(w.body.text, ConfiguredMaxLength))
                    /\ {"indices", "values"} = DOMAIN w.response.body.sparse
              /\ (w.response.status = 200 /\ w.endpoint = "/embed/batch/full")
                 => /\ {"dense", "sparse"} \subseteq DOMAIN w.response.body
                    /\ Len(w.response.body.dense) = Len(w.body.texts.items)
                    /\ Len(w.response.body.sparse) = Len(w.body.texts.items)

\* The step in which a request fails in encode touches nothing but the
\* failing request.
C5_Step ==
    \A th \in Threads :
        (workers[th].pc = "encode" /\ workers'[th].raised)
        => /\ \A u \in Threads \ {th} : workers'[u] = workers[u]
           /\ UNCHANGED globals

\* C5: a request in which encode raises ends as a 500 and never as a 200
\* with part of the representations; a 200 of a full endpoint holds the
\* dense and the sparse representation of every input; and the failure of
\* a request changes no other request.
C5_FailsWholeOrNotAtAll == []C5_State /\ [][C5_Step]_vars

\* A full request failed in encode and another full request was answered 200.
C5_Witness ==
    \E th, u \in Threads :
        /\ Done(th) /\ workers[th].raised /\ workers[th].endpoint \in FullEndpoints
        /\ Ok(u) /\ workers[u].endpoint \in FullEndpoints

-----------------------------------------------------------------------------
\* C6: every answer of GET /health is 200 {"status": "ok", "model": m}, m
\* the model identifier configured at process start, whatever the other
\* requests were.
C6_HealthAlwaysOk ==
    \A th \in Threads :
        (Done(th) /\ workers[th].endpoint = "/health")
        => workers[th].response =
              [status |-> 200, body |-> [status |-> "ok", model |-> ConfiguredModelName]]

\* /health was answered under a configured model identifier beside a
\* request that failed in inference.
C6_Witness ==
    \E th, u \in Threads :
        /\ Done(th) /\ workers[th].endpoint = "/health"
        /\ environ.MODEL_NAME # <<>>
        /\ Done(u) /\ workers[u].raised

-----------------------------------------------------------------------------
C7_State ==
    /\ MODEL_NAME = ConfiguredModelName
    /\ MAX_LENGTH = ConfiguredMaxLength
    /\ model.name = ConfiguredModelName
    /\ \A th, u \in Threads :
          ( /\ Done(th) /\ Done(u)
            /\ workers[th].endpoint = workers[u].endpoint
            /\ workers[th].body = workers[u].body )
          => workers[th].response = workers[u].response

C7_Step ==
    /\ MODEL_NAME' = MODEL_NAME
    /\ MAX_LENGTH' = MAX_LENGTH
    /\ model' = model
    /\ environ' = environ

\* C7: under every interleaving two requests to the same endpoint with the
\* same body get the same response, the globals are the configuration of
\* process start, and no step of a handler changes the model reference,
\* the model identifier or the maximum input length.
C7_Stateless == []C7_State /\ [][C7_Step]_vars

\* Two workers have answered the same request with 200 after calling encode.
C7_Witness ==
    \E th, u \in Threads :
        /\ th # u
        /\ Ok(th) /\ Ok(u)
        /\ workers[th].endpoint = "/embed"
        /\ workers[u].endpoint = "/embed"
        /\ workers[th].body = workers[u].body
        /\ workers[th].calls # <<>>

-----------------------------------------------------------------------------
\* C8: every call of encode passes the maximum input length configured at
\* process start, asks for the dense representation, asks for no
\* multi-vector representation, and asks for the sparse representation
\* exactly when the endpoint is a full variant; no response and no result
\* holds a multi-vector representation.
C8_FixedFlags ==
    \A th \in Threads :
        /\ \A i \in 1..Len(workers[th].calls) :
              LET call == workers[th].calls[i]
              IN  /\ call.max_length = ConfiguredMaxLength
                  /\ call.return_dense = TRUE
                  /\ call.return_colbert_vecs = FALSE
                  /\ call.return_sparse = (workers[th].endpoint \in FullEndpoints)
        /\ "colbert_vecs" \notin DOMAIN workers[th].result
        /\ DOMAIN workers[th].response.body \cap {"colbert_vecs", "colbert", "multi_vector"} = {}

\* Under a configured maximum length a full endpoint and a dense endpoint
\* have both called encode.
C8_Witness ==
    \E th, u \in Threads :
        /\ environ.MAX_LENGTH # <<>>
        /\ Ok(th) /\ workers[th].endpoint = "/embed/batch/full"
        /\ Ok(u) /\ workers[u].endpoint = "/embed"

-----------------------------------------------------------------------------
\* C9: a request that passed validation has, when it ends, made exactly one
\* call of encode, also when that call raised; a batch endpoint passed the
\* whole `texts` of the body in that call and a single endpoint passed
\* [text]; a request makes no call before it passed validation nor when it
\* is rejected.
C9_ExactlyOneCall ==
    \A th \in Threads :
        LET w == workers[th]
        IN  /\ (w.pc = "done" /\ w.local # Absent)
               => /\ Len(w.calls) = 1
                  /\ w.endpoint \in BatchEndpoints
                        => w.calls[1].sentences = w.body.texts
                  /\ w.endpoint \in SingleEndpoints
                        => w.calls[1].sentences = List(<<w.body.text>>)
            /\ (w.pc = "done" /\ w.local = Absent) => w.calls = <<>>
            /\ w.pc \in {"idle", "encode"} => w.calls = <<>>
            /\ w.raised => Len(w.calls) = 1

\* A batch of two texts was passed in one call that raised, and the request
\* ended.
C9_Witness ==
    \E th \in Threads :
        /\ Done(th) /\ workers[th].endpoint = "/embed/batch"
        /\ workers[th].raised
        /\ Len(workers[th].calls) = 1
        /\ Len(workers[th].calls[1].sentences.items) = 2

-----------------------------------------------------------------------------
\* C10: every call of encode passes a non-empty sequence whose elements are
\* all strings.
C10_OnlyStringSequencesReachEncode ==
    \A th \in Threads :
        \A i \in 1..Len(workers[th].calls) :
            StringSequence(workers[th].calls[i].sentences)

====
